---- MODULE Spec2Model ----
(***************************************************************************)
(* Admin product catalog: AdminProductController (create, getOne,         *)
(* updateById, bulkDelete) on top of the Product schema (casting,          *)
(* validators, virtuals and the pre("validate") / pre("save") hooks) and   *)
(* the attribute catalog.                                                  *)
(*                                                                         *)
(* JavaScript values are tagged records, so that `typeof`, undefined and   *)
(* null are distinguishable: Undef, Null, Num(n), Str(s), Txt(chars),      *)
(* Arr(seq).  Identifiers are short tokens; Hex24 is the set of tokens     *)
(* that stand for well-formed 24-hex strings.                              *)
(***************************************************************************)
EXTENDS Integers, Sequences, FiniteSets, TLC

VARIABLES store, nextId, last, inflight

vars == <<store, nextId, last, inflight>>

----------------------------------------------------------------------------
(* JavaScript values *)

Undef == [t |-> "undefined"]
Null == [t |-> "null"]
Num(n) == [t |-> "number", n |-> n]
Str(s) == [t |-> "string", s |-> s]
Txt(c) == [t |-> "string", c |-> c]
Arr(a) == [t |-> "array", a |-> a]

IsNum(x) == x.t = "number"
IsArr(x) == x.t = "array"
IsUndef(x) == x.t = "undefined"
IsNullish(x) == x.t \in {"undefined", "null"}

----------------------------------------------------------------------------
(* Identifiers *)

\* tokens standing for well-formed 24-hex strings; A1U and V1U are the hex
\* strings of A1 and V1 spelled with upper-case digits
Hex24 == {"A1", "A2", "AX", "V1", "V2", "V3", "VX", "K1", "P1", "P2", "PX", "A1U", "V1U"}

\* String(new ObjectId(x)): the lower-case spelling of a 24-hex string
lowerHex(x) ==
  CASE x = "A1U" -> "A1"
    [] x = "V1U" -> "V1"
    [] OTHER -> x

\* the ids the document store hands out, in order; an id is never handed out twice
IdSeq == <<"P1", "P2">>

isHex24(x) == x.t = "string" /\ "s" \in DOMAIN x /\ x.s \in Hex24

\* tokens standing for strings of 12 characters, which the driver's ObjectId
\* takes as 12 raw bytes
Bytes12 == {"L1"}

\* mongoose.isValidObjectId on a string: a 24-hex string or any string of 12
\* characters
isValidObjectId(x) == x.t = "string" /\ "s" \in DOMAIN x /\ x.s \in Hex24 \cup Bytes12

toArray(v) == IF IsArr(v) THEN v.a ELSE <<v>>

\* the attribute catalog: attribute id -> ids of its values
Catalog == [A1 |-> {"V1", "V2"}, A2 |-> {"V3"}]

----------------------------------------------------------------------------
(* Sequence helpers *)

Range(s) == {s[i] : i \in DOMAIN s}

RECURSIVE SumSeq(_)
SumSeq(s) == IF s = <<>> THEN 0 ELSE Head(s) + SumSeq(Tail(s))

RECURSIVE Filter(_, _)
Filter(s, keep) ==
  IF s = <<>> THEN <<>>
  ELSE IF Head(s) \in keep THEN <<Head(s)>> \o Filter(Tail(s), keep)
       ELSE Filter(Tail(s), keep)

\* Array.from(new Set(xs)): first occurrences, in order
RECURSIVE Distinct(_)
Distinct(s) ==
  IF s = <<>> THEN <<>>
  ELSE LET r == Distinct(SubSeq(s, 1, Len(s) - 1))
           x == s[Len(s)]
       IN IF x \in Range(r) THEN r ELSE Append(r, x)

RECURSIVE Flatten(_)
Flatten(ss) == IF ss = <<>> THEN <<>> ELSE Head(ss) \o Flatten(Tail(ss))

----------------------------------------------------------------------------
(* Slug normalisation on character sequences *)

Lower == [c \in {"a", "b", "A", "B", "1", " ", "-", "!"} |->
            IF c = "A" THEN "a" ELSE IF c = "B" THEN "b" ELSE c]

AlNum == {"a", "b", "1"}
Space == {" "}

toLowerCase(s) == [i \in DOMAIN s |-> Lower[s[i]]]

RECURSIVE trimLeft(_)
trimLeft(s) == IF s # <<>> /\ Head(s) \in Space THEN trimLeft(Tail(s)) ELSE s

RECURSIVE trimRight(_)
trimRight(s) ==
  IF s # <<>> /\ s[Len(s)] \in Space THEN trimRight(SubSeq(s, 1, Len(s) - 1)) ELSE s

trim(s) == trimRight(trimLeft(s))

\* mutant: every other character becomes a hyphen of its own
collapse_each(s) == [i \in DOMAIN s |-> IF s[i] \in AlNum THEN s[i] ELSE "-"]

\* replace(/[^a-z0-9]+/g, "-")
RECURSIVE collapse(_)
collapse(s) ==
  IF s = <<>> THEN <<>>
  ELSE IF Head(s) \in AlNum THEN <<Head(s)>> \o collapse(Tail(s))
       ELSE LET r == collapse(Tail(s))
            IN IF Tail(s) # <<>> /\ Head(Tail(s)) \notin AlNum THEN r ELSE <<"-">> \o r

\* replace(/(^-|-$)+/g, ""): one hyphen at the start and one at the end
stripLead(s) == IF s # <<>> /\ Head(s) = "-" THEN Tail(s) ELSE s

stripTrail(s) == IF s # <<>> /\ s[Len(s)] = "-" THEN SubSeq(s, 1, Len(s) - 1) ELSE s

stripHyphens(s) == stripTrail(stripLead(s))

\* controller: toLowerCase().trim().replace(..).replace(..)
normalizeSlug(s) == stripHyphens(collapse(trim(toLowerCase(s))))

\* pre("save"): toLowerCase().replace(..).replace(..)
slugFromTitle(s) == stripHyphens(collapse(toLowerCase(s)))

----------------------------------------------------------------------------
(* Product schema: setters, validators, hooks *)

\* strings the urlValidator accepts
UrlOK == {"http://img"}

urlValidator(x) == x.t = "string" /\ "s" \in DOMAIN x /\ x.s \in UrlOK

\* JavaScript truthiness of the values used here
Truthy(x) ==
  CASE x.t \in {"undefined", "null"} -> FALSE
    [] x.t = "number" -> x.n # 0
    [] x.t = "string" -> IF "s" \in DOMAIN x THEN x.s # "" ELSE x.c # <<>>
    [] OTHER -> TRUE

\* `x || 0` on a stock value
NumOr0(x) == IF IsNum(x) THEN x.n ELSE 0

\* String paths with trim: true
TrimSetter(x) == IF x.t = "string" /\ "c" \in DOMAIN x THEN Txt(trim(x.c)) ELSE x

\* String paths with lowercase: true, trim: true
SlugSetter(x) ==
  IF x.t = "string" /\ "c" \in DOMAIN x THEN Txt(trim(toLowerCase(x.c))) ELSE x

\* casting of one values[] element to VariantValueSchema (stock defaults to 0)
CastPair(p) ==
  [attributeId |-> p.attributeId,
   attributesValueId |-> p.attributesValueId,
   stock |-> IF IsUndef(p.stock) THEN Num(0) ELSE p.stock,
   imageUrl |-> p.imageUrl]

\* casting of one variants[] element to VariantSchema
CastVariant(v) ==
  [price |-> v.price,
   salePrice |-> v.salePrice,
   stock |-> v.stock,
   values |-> IF IsArr(v.values) THEN [i \in DOMAIN v.values.a |-> CastPair(v.values.a[i])]
              ELSE <<>>]

CastVariants(a) == [i \in DOMAIN a |-> CastVariant(a[i])]

\* validateVariantValue, which the sub-schema's own validators repeat
validateVariantValue(p) ==
  /\ isHex24(p.attributeId)
  /\ IF IsArr(p.attributesValueId)
       THEN /\ Len(p.attributesValueId.a) > 0
            /\ \A i \in DOMAIN p.attributesValueId.a : isHex24(p.attributesValueId.a[i])
       ELSE isHex24(p.attributesValueId)
  /\ IsNum(p.stock) /\ p.stock.n >= 0
  /\ (Truthy(p.imageUrl) => urlValidator(p.imageUrl))

\* Number path with min: 0, not required
OptionalMin0(x) == IsNullish(x) \/ (IsNum(x) /\ x.n >= 0)

\* Number path with min: 0, required: true
RequiredMin0(x) == IsNum(x) /\ x.n >= 0

VariantValid(v) ==
  /\ RequiredMin0(v.price)
  /\ OptionalMin0(v.salePrice)
  /\ RequiredMin0(v.stock)
  /\ Len(v.values) > 0
  /\ \A i \in DOMAIN v.values : validateVariantValue(v.values[i])

\* required: true on a String path
RequiredString(x) == x.t = "string" /\ Truthy(x)

\* the validators of ProductSchema, run by validate() after the pre("validate") hooks
SchemaValid(d) ==
  /\ RequiredString(d.title)
  /\ RequiredString(d.slug)
  /\ RequiredString(d.imageUrl) /\ urlValidator(d.imageUrl)
  /\ IsNullish(d.category) \/ isValidObjectId(d.category)
  /\ IsNullish(d.brand) \/ d.brand.t = "string"
  /\ ~Truthy(d.mainAttributeId) \/ isHex24(d.mainAttributeId)
  /\ OptionalMin0(d.price)
  /\ OptionalMin0(d.stock)
  /\ \A i \in DOMAIN d.variants : VariantValid(d.variants[i])

\* mutant: `some` variant carries the main attribute instead of `every`
everyHasMain_some(d) ==
  \E i \in DOMAIN d.variants :
    \E j \in DOMAIN d.variants[i].values :
      d.variants[i].values[j].attributeId = d.mainAttributeId

everyHasMain(d) ==
  \A i \in DOMAIN d.variants :
    \E j \in DOMAIN d.variants[i].values :
      d.variants[i].values[j].attributeId = d.mainAttributeId

\* mutant: sums the stocks of the pairs instead of the stocks of the variants
variantStockSum_pairs(d) ==
  SumSeq([i \in DOMAIN d.variants |->
            SumSeq([j \in DOMAIN d.variants[i].values |-> NumOr0(d.variants[i].values[j].stock)])])

variantStockSum(d) == SumSeq([i \in DOMAIN d.variants |-> NumOr0(d.variants[i].stock)])

\* mutant: the simple branch leaves totalStock as it was
preValidate_staleTotal(d) ==
  IF Len(d.variants) > 0
    THEN IF ~Truthy(d.mainAttributeId) THEN [ok |-> FALSE, doc |-> d]
         ELSE IF ~everyHasMain(d) THEN [ok |-> FALSE, doc |-> d]
         ELSE [ok |-> TRUE,
               doc |-> [d EXCEPT !.totalStock = Num(variantStockSum(d)), !.stock = Undef]]
    ELSE IF ~IsNum(d.price) THEN [ok |-> FALSE, doc |-> d]
         ELSE IF ~IsNum(d.stock) THEN [ok |-> FALSE, doc |-> d]
         ELSE [ok |-> TRUE, doc |-> d]

\* mutant: the variants branch leaves the product-level stock as it was
preValidate_keepStock(d) ==
  IF Len(d.variants) > 0
    THEN IF ~Truthy(d.mainAttributeId) THEN [ok |-> FALSE, doc |-> d]
         ELSE IF ~everyHasMain(d) THEN [ok |-> FALSE, doc |-> d]
         ELSE [ok |-> TRUE, doc |-> [d EXCEPT !.totalStock = Num(variantStockSum(d))]]
    ELSE IF ~IsNum(d.price) THEN [ok |-> FALSE, doc |-> d]
         ELSE IF ~IsNum(d.stock) THEN [ok |-> FALSE, doc |-> d]
         ELSE [ok |-> TRUE, doc |-> [d EXCEPT !.totalStock = Num(NumOr0(d.stock))]]

\* mutant: the simple branch accepts a product without a numeric price or stock
preValidate_anySimple(d) ==
  IF Len(d.variants) > 0
    THEN IF ~Truthy(d.mainAttributeId) THEN [ok |-> FALSE, doc |-> d]
         ELSE IF ~everyHasMain(d) THEN [ok |-> FALSE, doc |-> d]
         ELSE [ok |-> TRUE,
               doc |-> [d EXCEPT !.totalStock = Num(variantStockSum(d)), !.stock = Undef]]
    ELSE [ok |-> TRUE, doc |-> [d EXCEPT !.totalStock = Num(NumOr0(d.stock))]]

\* ProductSchema.pre("validate"): integrity and aggregation
preValidate(d) ==
  IF Len(d.variants) > 0
    THEN IF ~Truthy(d.mainAttributeId) THEN [ok |-> FALSE, doc |-> d]
         ELSE IF ~everyHasMain(d) THEN [ok |-> FALSE, doc |-> d]
         ELSE [ok |-> TRUE,
               doc |-> [d EXCEPT !.totalStock = Num(variantStockSum(d)), !.stock = Undef]]
    ELSE IF ~IsNum(d.price) THEN [ok |-> FALSE, doc |-> d]
         ELSE IF ~IsNum(d.stock) THEN [ok |-> FALSE, doc |-> d]
         ELSE [ok |-> TRUE, doc |-> [d EXCEPT !.totalStock = Num(NumOr0(d.stock))]]

\* ProductSchema.pre("save"): auto-slug if title changed and slug not set
preSave(d, titleModified, slugModified) ==
  IF titleModified /\ ~slugModified
    THEN [d EXCEPT !.slug = Txt(slugFromTitle(d.title.c))]
    ELSE d

\* the unique index on slug
SlugTaken(st, id, d) ==
  \E o \in DOMAIN st : o # id /\ st[o].slug = d.slug

\* mutant: the document is written although its validators fail
save_writeInvalid(st, id, d, titleModified, slugModified) ==
  LET pv == preValidate(d)
      written == [o \in (DOMAIN st) \cup {id} |-> IF o = id THEN pv.doc ELSE st[o]]
  IN IF ~pv.ok THEN [status |-> 500, store |-> st]
     ELSE IF ~SchemaValid(pv.doc) THEN [status |-> 500, store |-> written]
     ELSE IF SlugTaken(st, id, preSave(pv.doc, titleModified, slugModified))
       THEN [status |-> 409, store |-> st]
     ELSE [status |-> 200,
           store |-> [o \in (DOMAIN st) \cup {id} |->
                        IF o = id THEN preSave(pv.doc, titleModified, slugModified)
                        ELSE st[o]]]

\* document.save(): pre("validate") hooks, validation, pre("save") hooks, then
\* the write; validation is itself the first pre("save") hook, so the auto-slug
\* hook runs only on a document that already passed validation
save(st, id, d, titleModified, slugModified) ==
  LET pv == preValidate(d)
      sd == preSave(pv.doc, titleModified, slugModified)
  IN IF ~pv.ok THEN [status |-> 500, store |-> st]
     ELSE IF ~SchemaValid(pv.doc) THEN [status |-> 500, store |-> st]
     ELSE IF SlugTaken(st, id, sd) THEN [status |-> 409, store |-> st]
     ELSE [status |-> 200,
           store |-> [o \in (DOMAIN st) \cup {id} |-> IF o = id THEN sd ELSE st[o]]]

----------------------------------------------------------------------------
(* AdminProductController.create *)

Result(status, reason, detail, st, id) ==
  [status |-> status, reason |-> reason, detail |-> detail, store |-> st, id |-> id]

\* new Product(payload): casting, setters and schema defaults
newDoc(payload, slug, category, mainAttributeId, variants) ==
  [title |-> TrimSetter(payload.title),
   slug |-> SlugSetter(slug),
   imageUrl |-> payload.imageUrl,
   brand |-> payload.brand,
   category |-> category,
   mainAttributeId |-> mainAttributeId,
   price |-> payload.price,
   stock |-> payload.stock,
   totalStock |-> Num(0),
   variants |-> variants]

\* Product.create(doc): save() of a new document; every supplied path counts as
\* modified
productCreate(st, id, d, reason) ==
  LET r == save(st, id, d, ~IsUndef(d.title), ~IsUndef(d.slug))
  IN IF r.status = 200 THEN Result(201, "created", <<>>, r.store, id)
     ELSE IF r.status = 409 THEN Result(409, "duplicate", <<>>, r.store, id)
     ELSE Result(500, reason, <<>>, r.store, id)

\* the slug the handler puts back into the payload
createSlug(payload) ==
  IF Truthy(payload.slug) THEN Txt(normalizeSlug(payload.slug.c)) ELSE payload.slug

\* the category the handler puts back into the payload
createCategory(payload) ==
  IF payload.category.t = "null" THEN Undef ELSE payload.category

\* variants.every(v => typeof v.price === "number" && ...)
variantShapeOK(v) ==
  /\ IsNum(v.price)
  /\ IsNum(v.stock)
  /\ IsArr(v.values)
  /\ Len(v.values.a) > 0

\* the four checks the first loop makes on one pair, in order
pairCheck(p) ==
  LET ids == toArray(p.attributesValueId)
  IN IF ~isHex24(p.attributeId) THEN "attributeId"
     ELSE IF Len(ids) = 0 \/ ~(\A i \in DOMAIN ids : isHex24(ids[i])) THEN "valueId"
     ELSE IF ~IsNum(p.stock) \/ p.stock.n < 0 THEN "pairStock"
     ELSE IF Truthy(p.imageUrl) /\ p.imageUrl.t # "string" THEN "pairImageUrl"
     ELSE "ok"

\* variants.flatMap(v => v.values): all pairs in iteration order
allPairs(variants) == Flatten([i \in DOMAIN variants |-> variants[i].values.a])

\* index of the first TRUE of a sequence of flags, 0 if none: where a loop
\* that returns at the first failure stops
FirstIndex(flags) ==
  IF \E i \in DOMAIN flags : flags[i]
    THEN CHOOSE i \in DOMAIN flags : flags[i] /\ \A j \in 1..(i - 1) : ~flags[j]
    ELSE 0

distinctAttrIds(variants) ==
  LET ps == allPairs(variants)
  IN Distinct([i \in DOMAIN ps |-> ps[i].attributeId.s])

\* allAttrIds.filter(id => !foundIds.has(id))
missingAttrIds(variants) ==
  Filter(distinctAttrIds(variants), {a \in Hex24 : a \notin DOMAIN Catalog})

\* vids.filter(vid => !allowed.has(vid)) for one pair
badValueIds(p) ==
  LET ids == toArray(p.attributesValueId)
      vids == [i \in DOMAIN ids |-> ids[i].s]
  IN Filter(vids, {v \in Hex24 : v \notin Catalog[p.attributeId.s]})

lacksMain(v, main) ==
  ~\E j \in DOMAIN v.values.a : v.values.a[j].attributeId = main

\* mutant: the index of the last variant without a pair for main
firstLacking_last(variants, main) ==
  IF \E i \in DOMAIN variants : lacksMain(variants[i], main)
    THEN CHOOSE i \in DOMAIN variants :
           /\ lacksMain(variants[i], main)
           /\ \A j \in (i + 1)..Len(variants) : ~lacksMain(variants[j], main)
    ELSE 0

\* for (const [idx, v] of variants.entries()): the first variant without a pair
\* for main, counted from 1; 0 if every variant has one
firstLacking(variants, main) ==
  FirstIndex([i \in DOMAIN variants |-> lacksMain(variants[i], main)])

\* variants.map(v => ({..., values: v.values.map(...)}))
cleanedVariants(variants) ==
  [i \in DOMAIN variants |->
     [price |-> variants[i].price,
      salePrice |-> variants[i].salePrice,
      stock |-> variants[i].stock,
      values |-> Arr([j \in DOMAIN variants[i].values.a |->
                    LET p == variants[i].values.a[j]
                    IN [attributeId |-> p.attributeId,
                        attributesValueId |-> p.attributesValueId,
                        stock |-> p.stock,
                        imageUrl |-> IF IsNullish(p.imageUrl) THEN Null ELSE p.imageUrl]])]]

\* mutant: a supplied mainAttributeId wins over the single attribute in use
resolveMain_callerFirst(payload, attrIds) ==
  IF Truthy(payload.mainAttributeId) /\ isHex24(payload.mainAttributeId)
    THEN [ok |-> TRUE, reason |-> "supplied", main |-> payload.mainAttributeId]
  ELSE IF Len(attrIds) = 1 THEN [ok |-> TRUE, reason |-> "inferred", main |-> Str(attrIds[1])]
  ELSE [ok |-> FALSE, reason |-> "mainRequired", main |-> Null]

\* mutant: with several attributes and no mainAttributeId, the first one is taken
resolveMain_default(payload, attrIds) ==
  IF Len(attrIds) = 1 \/ ~Truthy(payload.mainAttributeId)
    THEN [ok |-> TRUE, reason |-> "inferred", main |-> Str(attrIds[1])]
  ELSE IF ~isHex24(payload.mainAttributeId)
    THEN [ok |-> FALSE, reason |-> "mainFormat", main |-> Null]
  ELSE IF payload.mainAttributeId.s \notin Range(attrIds)
    THEN [ok |-> FALSE, reason |-> "mainNotUsed", main |-> Null]
  ELSE [ok |-> TRUE, reason |-> "supplied", main |-> payload.mainAttributeId]

\* the main-attribute decision of create
resolveMain(payload, attrIds) ==
  IF Len(attrIds) = 1 THEN [ok |-> TRUE, reason |-> "inferred", main |-> Str(attrIds[1])]
  ELSE IF ~Truthy(payload.mainAttributeId)
    THEN [ok |-> FALSE, reason |-> "mainRequired", main |-> Null]
  ELSE IF ~isHex24(payload.mainAttributeId)
    THEN [ok |-> FALSE, reason |-> "mainFormat", main |-> Null]
  ELSE IF payload.mainAttributeId.s \notin Range(attrIds)
    THEN [ok |-> FALSE, reason |-> "mainNotUsed", main |-> Null]
  ELSE [ok |-> TRUE, reason |-> "supplied", main |-> payload.mainAttributeId]

createVariantProduct(st, id, payload) ==
  LET variants == payload.variants.a
      ps == allPairs(variants)
      k == FirstIndex([i \in DOMAIN ps |-> pairCheck(ps[i]) # "ok"])
      attrIds == distinctAttrIds(variants)
      missing == missingAttrIds(variants)
      b == FirstIndex([i \in DOMAIN ps |-> badValueIds(ps[i]) # <<>>])
      rm == resolveMain(payload, attrIds)
      idx == firstLacking(variants, rm.main)
      toSave == newDoc(payload, createSlug(payload), createCategory(payload), rm.main,
                       CastVariants(cleanedVariants(variants)))
  IN IF ~(\A i \in DOMAIN variants : variantShapeOK(variants[i]))
       THEN Result(400, "shape", <<>>, st, id)
     ELSE IF k # 0 THEN Result(400, pairCheck(ps[k]), <<>>, st, id)
     ELSE IF missing # <<>> THEN Result(400, "unknownAttribute", missing, st, id)
     ELSE IF b # 0
       THEN Result(400, "unknownValue", <<ps[b].attributeId.s>> \o badValueIds(ps[b]), st, id)
     ELSE IF ~rm.ok THEN Result(400, rm.reason, <<>>, st, id)
     ELSE IF idx # 0 THEN Result(400, "variantLacksMain", <<idx - 1>>, st, id)
     ELSE productCreate(st, id, toSave, "saveFailed")

create(st, id, payload) ==
  IF ~IsArr(payload.variants) \/ Len(payload.variants.a) = 0
    THEN IF ~IsNum(payload.price) THEN Result(400, "simplePrice", <<>>, st, id)
         ELSE IF ~IsNum(payload.stock) THEN Result(400, "simpleStock", <<>>, st, id)
         ELSE IF ~IsUndef(payload.variants) /\ ~IsArr(payload.variants)
           THEN Result(500, "castError", <<>>, st, id)
         ELSE productCreate(st, id,
                newDoc(payload, createSlug(payload), createCategory(payload),
                       payload.mainAttributeId, <<>>),
                "saveFailed")
    ELSE createVariantProduct(st, id, payload)

----------------------------------------------------------------------------
(* AdminProductController.updateById *)

\* the forEach over the plain fields: a field is applied unless it is undefined
applyFields(d, body) ==
  [d EXCEPT
     !.title = IF IsUndef(body.title) THEN @ ELSE TrimSetter(body.title),
     !.brand = IF IsUndef(body.brand) THEN @ ELSE body.brand,
     !.price = IF IsUndef(body.price) THEN @ ELSE body.price,
     !.stock = IF IsUndef(body.stock) THEN @ ELSE body.stock,
     !.imageUrl = IF IsUndef(body.imageUrl) THEN @ ELSE body.imageUrl,
     !.mainAttributeId = IF IsUndef(body.mainAttributeId) THEN @ ELSE body.mainAttributeId]

\* typeof body.slug !== "undefined" && String(body.slug).trim()
slugSupplied(body) == ~IsUndef(body.slug) /\ trim(body.slug.c) # <<>>

applySlug(d, body) ==
  IF slugSupplied(body) THEN [d EXCEPT !.slug = SlugSetter(Txt(normalizeSlug(body.slug.c)))]
  ELSE d

categoryRejected(body) ==
  /\ ~IsUndef(body.category)
  /\ ~(Truthy(body.category) /\ isValidObjectId(body.category))
  /\ body.category.t # "null"

\* mutant: an absent category clears the stored one, as null does
applyCategory_clearAbsent(d, body) ==
  IF IsNullish(body.category) THEN [d EXCEPT !.category = Undef]
  ELSE [d EXCEPT !.category = body.category]

applyCategory(d, body) ==
  IF IsUndef(body.category) THEN d
  ELSE IF body.category.t = "null" THEN [d EXCEPT !.category = Undef]
  ELSE [d EXCEPT !.category = body.category]

\* mutant: the supplied variants are appended to the stored ones
applyVariants_merge(d, body) ==
  IF IsUndef(body.variants) THEN d
  ELSE [d EXCEPT !.variants = @ \o CastVariants(body.variants.a)]

applyVariants(d, body) ==
  IF IsUndef(body.variants) THEN d
  ELSE [d EXCEPT !.variants = CastVariants(body.variants.a)]

updateById(st, body) ==
  LET id == body.id.s
      old == st[id]
      d == applyVariants(applyCategory(applySlug(applyFields(old, body), body), body), body)
      r == save(st, id, d, d.title # old.title, d.slug # old.slug)
  IN IF ~(body.id.t = "string" /\ isValidObjectId(body.id))
       THEN Result(400, "id", <<>>, st, "")
     ELSE IF id \notin DOMAIN st THEN Result(404, "notFound", <<>>, st, id)
     ELSE IF ~IsUndef(body.mainBuild) THEN Result(400, "mainBuild", <<>>, st, id)
     ELSE IF categoryRejected(body) THEN Result(400, "category", <<>>, st, id)
     ELSE IF ~IsUndef(body.variants) /\ ~IsArr(body.variants)
       THEN Result(400, "variantsNotArray", <<>>, st, id)
     ELSE IF r.status = 200 THEN Result(200, "updated", <<>>, r.store, id)
     ELSE IF r.status = 409 THEN Result(409, "duplicate", <<>>, r.store, id)
     ELSE Result(500, "saveFailed", <<>>, r.store, id)

----------------------------------------------------------------------------
(* AdminProductController.bulkDelete *)

\* ids.filter(id => /^[0-9a-fA-F]{24}$/.test(id))
validIds(ids) == Filter(ids, Hex24)

\* mutant: one malformed id fails the whole batch
bulkDelete_rejectMalformed(st, ids) ==
  LET valid == validIds(ids)
      hit == DOMAIN st \cap Range(valid)
  IN IF Len(ids) = 0 THEN Result(400, "ids", <<>>, st, "")
     ELSE IF Len(valid) < Len(ids) THEN Result(400, "noValidIds", <<>>, st, "")
     ELSE Result(200, "deleted", <<Cardinality(hit)>>,
                 [o \in DOMAIN st \ hit |-> st[o]], "")

bulkDelete(st, ids) ==
  LET valid == validIds(ids)
      hit == DOMAIN st \cap Range(valid)
  IN IF Len(ids) = 0 THEN Result(400, "ids", <<>>, st, "")
     ELSE IF Len(valid) = 0 THEN Result(400, "noValidIds", <<>>, st, "")
     ELSE Result(200, "deleted", <<Cardinality(hit)>>,
                 [o \in DOMAIN st \ hit |-> st[o]], "")

----------------------------------------------------------------------------
(* Requests *)

\* a request with every field undefined
NoReq ==
  [id |-> Undef, mainBuild |-> Undef, title |-> Undef, slug |-> Undef,
   imageUrl |-> Undef, brand |-> Undef, category |-> Undef, mainAttributeId |-> Undef,
   price |-> Undef, stock |-> Undef, variants |-> Undef, ids |-> <<>>]

\* the longest variants list a request carries
MaxVariants == 2

\* the largest product-level stock a request carries
MaxStock == 2

Pair(a, v, s) ==
  [attributeId |-> Str(a), attributesValueId |-> Str(v), stock |-> Num(s), imageUrl |-> Undef]

Variant(price, stock, values) ==
  [price |-> price, salePrice |-> Undef, stock |-> stock, values |-> Arr(values)]

SeqsUpTo(S, n) == UNION {[1..k -> S] : k \in 0..n}

vA1 == Variant(Num(5), Num(1), <<Pair("A1", "V1", 0)>>)
vA1b == Variant(Num(5), Num(2), <<Pair("A1", "V2", 0)>>)
vAB == Variant(Num(5), Num(2), <<Pair("A1", "V2", 0), Pair("A2", "V3", 0)>>)
vB == Variant(Num(5), Num(1), <<Pair("A2", "V3", 0)>>)
vX == Variant(Num(5), Num(2), <<Pair("AX", "V1", 0)>>)
vBadValue == Variant(Num(5), Num(1), <<Pair("A1", "V3", 0)>>)
vBadId == Variant(Num(5), Num(1), <<Pair("bad", "V1", 0)>>)
vNegative == Variant(Num(5), Num(0 - 1), <<Pair("A1", "V1", 0)>>)
vNoPrice == Variant(Undef, Num(1), <<Pair("A1", "V1", 0)>>)
vStockThenId == Variant(Num(5), Num(1), <<Pair("A1", "V1", 0 - 1), Pair("bad", "V1", 0)>>)
vTwoBadValues == Variant(Num(5), Num(1), <<Pair("A1", "V3", 0), Pair("A1", "VX", 0)>>)
vTwoUnknown ==
  Variant(Num(5), Num(1), <<Pair("AX", "V1", 0), Pair("K1", "V1", 0), Pair("AX", "V2", 0)>>)

StockIn == {Undef, Null, Num(0 - 1)} \cup {Num(n) : n \in 0..MaxStock}

PriceIn == {Undef, Null, Num(5)}

\* what every create below supplies: title, slug and image
BaseCreate ==
  [NoReq EXCEPT !.title = Txt(<<"A">>), !.slug = Txt(<<"a">>), !.imageUrl = Str("http://img")]

\* Spec: the aggregate fields (price, stock, mainAttributeId, variants) ----

\* variants with one or two known attributes, or an attribute missing from the catalog
VariantIn == {vA1, vAB, vX}

VariantsIn == {Arr(l) : l \in SeqsUpTo(VariantIn, MaxVariants)}

CreateInputs ==
  {[BaseCreate EXCEPT !.price = p, !.stock = s] : p \in PriceIn, s \in StockIn}
  \cup
  {[BaseCreate EXCEPT !.price = ps[1], !.stock = ps[2], !.mainAttributeId = m, !.variants = v] :
     ps \in {<<Undef, Undef>>, <<Num(5), Num(1)>>}, m \in {Undef, Str("A2")}, v \in VariantsIn}

UpdateInputs ==
  {[NoReq EXCEPT !.id = i, !.price = p, !.stock = s, !.variants = v] :
     i \in {Str("P1"), Str("P2")}, p \in PriceIn, s \in StockIn, v \in {Undef, Arr(<<>>)}}
  \cup
  {[NoReq EXCEPT !.id = Str("P1"), !.stock = s, !.mainAttributeId = m, !.variants = v] :
     s \in {Undef, Num(1)},
     m \in {Undef, Null, Str("A1"), Str("A2"), Str("AX"), Str("bad")},
     v \in VariantsIn \cup {Undef}}
  \cup
  {[NoReq EXCEPT !.id = i] : i \in {Str("PX"), Str("L1"), Str("bad"), Undef}}

DeleteInputs == {<<"P1">>, <<"bad", "P2">>, <<"bad">>, <<>>}

----------------------------------------------------------------------------
(* The store and the operations on it *)

EmptyStore == [o \in {} |-> NoReq]

\* what `last` remembers of the latest request: its outcome and, when the
\* request is logged in full, the request itself and the store it met.  A
\* request logged in full ends the run; the store it leaves is also left by the
\* same request not logged.
Outcome(op, req, r, full, st) ==
  [op |-> op, full |-> full, req |-> IF full THEN req ELSE NoReq,
   before |-> IF full THEN st ELSE EmptyStore, status |-> r.status,
   reason |-> r.reason, detail |-> r.detail, id |-> r.id]

Init ==
  /\ store = EmptyStore
  /\ nextId = 1
  /\ last = [op |-> "none", full |-> FALSE, req |-> NoReq, before |-> EmptyStore,
             status |-> 0, reason |-> "", detail |-> <<>>, id |-> ""]
  /\ inflight = {}

CreateStep(payload, full) ==
  /\ nextId <= Len(IdSeq)
  /\ LET r == create(store, IdSeq[nextId], payload)
     IN /\ store' = r.store
        /\ nextId' = IF r.status = 201 THEN nextId + 1 ELSE nextId
        /\ last' = Outcome("create", payload, r, full, store)
        /\ UNCHANGED inflight

UpdateStep(body, full) ==
  LET r == updateById(store, body)
  IN /\ store' = r.store
     /\ last' = Outcome("update", body, r, full, store)
     /\ UNCHANGED <<nextId, inflight>>

DeleteStep(ids, full) ==
  LET r == bulkDelete(store, ids)
  IN /\ store' = r.store
     /\ last' = Outcome("delete", [NoReq EXCEPT !.ids = ids], r, full, store)
     /\ UNCHANGED <<nextId, inflight>>

Create == ~last.full /\ \E payload \in CreateInputs, full \in BOOLEAN : CreateStep(payload, full)

Update == ~last.full /\ \E body \in UpdateInputs, full \in BOOLEAN : UpdateStep(body, full)

Delete == ~last.full /\ \E ids \in DeleteInputs, full \in BOOLEAN : DeleteStep(ids, full)

Next == Create \/ Update \/ Delete

Spec == Init /\ [][Next]_vars

----------------------------------------------------------------------------
(* Aggregate invariants of the stored products *)

Stored == {store[o] : o \in DOMAIN store}

HasVariants(d) == Len(d.variants) > 0

\* the last request was a successful update of a product that is still stored
UpdatedOK == last.op = "update" /\ last.status = 200 /\ last.id \in DOMAIN store

\* C1: every stored product with variants has totalStock equal to the sum of
\* the stocks of its variants
C1_TotalStockIsVariantSum ==
  \A d \in Stored :
    HasVariants(d) =>
      /\ \A i \in DOMAIN d.variants : IsNum(d.variants[i].stock)
      /\ d.totalStock = Num(SumSeq([i \in DOMAIN d.variants |-> d.variants[i].stock.n]))

\* a successful update left a product with two variants of stocks 1 and 2
C1_Witness ==
  /\ UpdatedOK
  /\ Len(store[last.id].variants) = 2
  /\ store[last.id].variants[1].stock = Num(1)
  /\ store[last.id].variants[2].stock = Num(2)
  /\ store[last.id].totalStock = Num(3)

\* C2: every stored product without variants has totalStock equal to its stock
C2_TotalStockIsStock ==
  \A d \in Stored : ~HasVariants(d) => IsNum(d.stock) /\ d.totalStock = d.stock

\* a successful update left a simple product with stock 2
C2_Witness ==
  /\ UpdatedOK
  /\ ~HasVariants(store[last.id])
  /\ store[last.id].stock = Num(2)

\* C3: no stored product has variants without a main attribute, or a variant
\* without a pair for the main attribute
C3_MainAttributeIntegrity ==
  \A d \in Stored :
    HasVariants(d) =>
      /\ d.mainAttributeId.t = "string"
      /\ d.mainAttributeId.s # ""
      /\ \A i \in DOMAIN d.variants :
           \E j \in DOMAIN d.variants[i].values :
             d.variants[i].values[j].attributeId = d.mainAttributeId

\* a successful update left a product whose variants all carry the main
\* attribute A2 besides A1
C3_Witness ==
  /\ UpdatedOK
  /\ HasVariants(store[last.id])
  /\ store[last.id].mainAttributeId = Str("A2")

\* C4: every pair of every stored variant names an attribute of the catalog and
\* only values of that attribute
C4_PairsInCatalog ==
  \A d \in Stored :
    \A i \in DOMAIN d.variants :
      \A j \in DOMAIN d.variants[i].values :
        LET p == d.variants[i].values[j]
            ids == toArray(p.attributesValueId)
        IN /\ p.attributeId.s \in DOMAIN Catalog
           /\ \A k \in DOMAIN ids : ids[k].s \in Catalog[p.attributeId.s]

----------------------------------------------------------------------------
(* SpecCreate: one create on the empty store, the request logged in full *)

\* the longest list of well-formed variants a create carries
MaxCreateVariants == 3

GoodVariantIn == {vA1, vA1b, vAB, vB}

BadVariantIn ==
  {vX, vBadValue, vBadId, vNegative, vNoPrice, vStockThenId, vTwoBadValues, vTwoUnknown}

\* a list of well-formed variants, or a list with one variant that is not
CreateVariantsIn ==
  {Arr(l) : l \in SeqsUpTo(GoodVariantIn, MaxCreateVariants)}
  \cup {Arr(<<b>>) : b \in BadVariantIn}
  \cup {Arr(<<g, b>>) : g \in GoodVariantIn, b \in BadVariantIn}
  \cup {Arr(<<b, g>>) : g \in GoodVariantIn, b \in BadVariantIn}

CreateMainIn == {Undef, Null, Str("A1"), Str("A2"), Str("AX"), Str("bad")}

CreateFirstInputs ==
  {[BaseCreate EXCEPT !.price = ps[1], !.stock = ps[2], !.mainAttributeId = m, !.variants = v] :
     ps \in {<<Undef, Undef>>, <<Num(5), Num(1)>>, <<Undef, Num(0 - 1)>>},
     m \in CreateMainIn, v \in CreateVariantsIn}

\* the first request is a create, logged in full
CreateFirst ==
  /\ last.op = "none"
  /\ \E payload \in CreateFirstInputs : CreateStep(payload, TRUE)

NextCreate == CreateFirst

SpecCreate == Init /\ [][NextCreate]_vars

\* the attribute ids a request's variants reference
ReqAttrs(req) ==
  UNION {{req.variants.a[i].values.a[j].attributeId : j \in DOMAIN req.variants.a[i].values.a} :
           i \in DOMAIN req.variants.a}

\* a variants list that passes every check of the validator and of the schema
ReqVariantsValid(req) ==
  /\ IsArr(req.variants)
  /\ Len(req.variants.a) > 0
  /\ \A i \in DOMAIN req.variants.a :
       LET v == req.variants.a[i]
       IN /\ IsNum(v.price) /\ v.price.n >= 0
          /\ IsNum(v.stock) /\ v.stock.n >= 0
          /\ Len(v.values.a) > 0
          /\ \A j \in DOMAIN v.values.a :
               LET p == v.values.a[j]
               IN /\ p.attributeId.s \in DOMAIN Catalog
                  /\ \A k \in DOMAIN toArray(p.attributesValueId) :
                       toArray(p.attributesValueId)[k].s \in Catalog[p.attributeId.s]
                  /\ IsNum(p.stock) /\ p.stock.n >= 0
                  /\ IsNullish(p.imageUrl)

\* the rest of a create request is valid: title, slug and image are there, price
\* and stock are absent or not negative
ReqRestValid(req) ==
  /\ req.title.t = "string" /\ trim(req.title.c) # <<>>
  /\ req.slug.t = "string" /\ normalizeSlug(req.slug.c) # <<>>
  /\ req.imageUrl = Str("http://img")
  /\ IsUndef(req.category)
  /\ IsUndef(req.price) \/ (IsNum(req.price) /\ req.price.n >= 0)
  /\ IsUndef(req.stock) \/ (IsNum(req.stock) /\ req.stock.n >= 0)

VariantHasAttr(v, a) == \E j \in DOMAIN v.values.a : v.values.a[j].attributeId = a

\* C5: a valid create whose variants all reference one attribute X succeeds and
\* stores mainAttributeId = X whatever the caller sent; with two variants
\* totalStock is the sum of their stocks
C5_SingleAttributeInferred ==
  (/\ last.op = "create"
   /\ ReqVariantsValid(last.req)
   /\ ReqRestValid(last.req)
   /\ Cardinality(ReqAttrs(last.req)) = 1)
  => /\ last.status = 201
     /\ last.id \in DOMAIN store
     /\ \A x \in ReqAttrs(last.req) : store[last.id].mainAttributeId = x
     /\ Len(last.req.variants.a) = 2 =>
          store[last.id].totalStock =
            Num(last.req.variants.a[1].stock.n + last.req.variants.a[2].stock.n)

\* two variants on A1 were created with the caller naming A2: main is A1, totalStock 3
C5_Witness ==
  /\ last.op = "create"
  /\ last.status = 201
  /\ last.req.variants = Arr(<<vA1, vA1b>>)
  /\ last.req.mainAttributeId = Str("A2")
  /\ store[last.id].mainAttributeId = Str("A1")
  /\ store[last.id].totalStock = Num(3)

\* C6: a create whose variants reference two or more attributes and that names
\* no main attribute is a validation failure and stores nothing
C6_AmbiguousMainRejected ==
  (/\ last.op = "create"
   /\ IsArr(last.req.variants)
   /\ Cardinality(ReqAttrs(last.req)) >= 2
   /\ ~Truthy(last.req.mainAttributeId))
  => /\ last.status = 400
     /\ store = EmptyStore
     /\ ReqVariantsValid(last.req) => last.reason = "mainRequired"

\* valid variants on A1 and A2 without a main attribute were refused
C6_Witness ==
  /\ last.op = "create"
  /\ last.req.variants = Arr(<<vAB, vA1>>)
  /\ IsUndef(last.req.mainAttributeId)
  /\ last.status = 400
  /\ last.reason = "mainRequired"

\* C7: with two or more attributes a create succeeds only if the supplied main
\* attribute is well-formed, in use and carried by every variant; a variant
\* without it is reported by the lowest such index
C7_SuppliedMainChecked ==
  (/\ last.op = "create"
   /\ IsArr(last.req.variants)
   /\ Cardinality(ReqAttrs(last.req)) >= 2)
  => LET req == last.req
         main == req.mainAttributeId
         lacking == {i \in DOMAIN req.variants.a : ~VariantHasAttr(req.variants.a[i], main)}
     IN /\ last.status = 201 =>
             /\ isHex24(main)
             /\ main \in ReqAttrs(req)
             /\ lacking = {}
             /\ store[last.id].mainAttributeId = main
        /\ (/\ ReqVariantsValid(req)
            /\ isHex24(main)
            /\ main \in ReqAttrs(req)
            /\ lacking # {})
           => /\ last.status = 400
              /\ last.reason = "variantLacksMain"
              /\ \E i \in lacking :
                   /\ \A j \in lacking : i <= j
                   /\ last.detail = <<i - 1>>

\* three variants, the second and third without the main attribute A2: index 1 is reported
C7_Witness ==
  /\ last.op = "create"
  /\ last.req.variants = Arr(<<vAB, vA1, vA1b>>)
  /\ last.req.mainAttributeId = Str("A2")
  /\ last.reason = "variantLacksMain"
  /\ last.detail = <<1>>

----------------------------------------------------------------------------
(* Updates logged in full *)

\* C10: after a successful update that supplies variants, the stored variants
\* are the supplied list, element by element and in order
C10_VariantsReplaced ==
  (/\ last.op = "update"
   /\ last.full
   /\ last.status = 200
   /\ ~IsUndef(last.req.variants))
  => LET new == store[last.id].variants
         req == last.req.variants.a
     IN /\ Len(new) = Len(req)
        /\ \A i \in DOMAIN req :
             /\ new[i].price = req[i].price
             /\ new[i].stock = req[i].stock
             /\ Len(new[i].values) = Len(req[i].values.a)
             /\ \A j \in DOMAIN req[i].values.a :
                  /\ new[i].values[j].attributeId = req[i].values.a[j].attributeId
                  /\ new[i].values[j].attributesValueId = req[i].values.a[j].attributesValueId
                  /\ new[i].values[j].stock = req[i].values.a[j].stock

\* a product stored with two variants was updated with a list of one other variant
C10_Witness ==
  /\ last.op = "update"
  /\ last.full
  /\ last.status = 200
  /\ last.req.variants = Arr(<<vAB>>)
  /\ Len(last.before[last.id].variants) = 2
  /\ last.before[last.id].variants[1].stock = Num(1)
  /\ Len(store[last.id].variants) = 1

----------------------------------------------------------------------------
(* Updates by an id that names no stored product *)

\* the id of the logged request is a string of 24 hex characters
WellFormedId == last.req.id.t = "string" /\ last.req.id.s \in Hex24

----------------------------------------------------------------------------
(* SpecFields: two products; title, slug, category and brand beside the      *)
(* aggregate fields                                                          *)

FieldVariantsIn == {Undef, Arr(<<>>), Arr(<<vA1, vAB>>), Arr(<<vNegative>>), Str("x")}

FieldSlugIn == {Undef, Txt(<<"A">>), Txt(<<"!">>), Txt(<<" ">>)}

FieldCategoryIn == {Undef, Null, Str("K1"), Str("bad")}

FieldCreateInputs ==
  {[BaseCreate EXCEPT !.slug = sl, !.price = k[1], !.stock = k[2], !.variants = k[3],
                      !.mainAttributeId = k[4]] :
     sl \in {Undef, Txt(<<"a">>), Txt(<<"b">>)},
     k \in {<<Num(5), Num(1), Undef, Undef>>, <<Num(5), Undef, Undef, Undef>>,
            <<Undef, Undef, Arr(<<vA1, vAB>>), Str("A1")>>}}
  \cup
  {[BaseCreate EXCEPT !.price = Num(5), !.stock = Num(1), !.category = c] :
     c \in FieldCategoryIn}

FieldUpdateInputs ==
  {[NoReq EXCEPT !.id = Str("P1"), !.title = t, !.slug = sl, !.category = c] :
     t \in {Undef, Txt(<<"B", " ", "A">>)}, sl \in FieldSlugIn, c \in FieldCategoryIn}
  \cup
  {[NoReq EXCEPT !.id = Str("P2"), !.title = t, !.slug = sl] :
     t \in {Undef, Txt(<<"B">>)}, sl \in {Undef, Txt(<<"b">>), Txt(<<"A">>)}}
  \cup
  {[NoReq EXCEPT !.id = Str("P1"), !.price = p, !.stock = st, !.mainAttributeId = m,
                 !.variants = v] :
     p \in {Undef}, st \in {Undef, Num(2), Num(0 - 1)}, m \in {Undef, Str("A2")},
     v \in FieldVariantsIn}
  \cup
  {[NoReq EXCEPT !.id = Str("P1"), !.title = Txt(<<"B">>), !.category = c, !.variants = v] :
     c \in {Undef, Str("bad")}, v \in {Arr(<<vA1, vAB>>), Str("x")}}
  \cup
  {[NoReq EXCEPT !.id = Str("P1"), !.brand = Str("acme")],
   [NoReq EXCEPT !.id = Str("P1"), !.title = Txt(<<"B">>), !.mainBuild = Str("x")]}
  \cup
  {[NoReq EXCEPT !.id = i, !.title = Txt(<<"B">>)] : i \in {Str("PX"), Str("bad"), Undef}}

FieldDeleteInputs == {<<"P1">>, <<"bad", "P2">>, <<"P1", "bad", "PX">>, <<"PX">>}

CreateF ==
  ~last.full /\ \E payload \in FieldCreateInputs, full \in BOOLEAN : CreateStep(payload, full)

UpdateF ==
  ~last.full /\ \E body \in FieldUpdateInputs, full \in BOOLEAN : UpdateStep(body, full)

DeleteF ==
  ~last.full /\ \E ids \in FieldDeleteInputs, full \in BOOLEAN : DeleteStep(ids, full)

NextFields == CreateF \/ UpdateF \/ DeleteF

SpecFields == Init /\ [][NextFields]_vars

StoredFields ==
  {"title", "slug", "imageUrl", "brand", "category", "mainAttributeId", "price", "stock",
   "totalStock", "variants"}

\* the stored fields that a request can carry and that no hook rewrites
PlainFields == {"title", "imageUrl", "brand", "category", "mainAttributeId", "price", "variants"}

Sent(req, f) == f \in DOMAIN req /\ ~IsUndef(req[f])

OthersUnchanged ==
  /\ DOMAIN store = DOMAIN last.before
  /\ \A o \in DOMAIN store \ {last.id} : store[o] = last.before[o]

FullUpdateOK == last.full /\ last.op = "update" /\ last.status = 200

\* C8: a create or update that does not end in success leaves the store as it
\* was before the request
C8_FailureLeavesStore ==
  (/\ last.full
   /\ last.op \in {"create", "update"}
   /\ last.status \notin {200, 201})
  => store = last.before

\* an update was rejected for its category after its title had been applied to
\* the in-memory product, and another one failed in save() with fields applied
C8_Witness ==
  /\ last.full
  /\ last.op = "update"
  /\ last.id \in DOMAIN last.before
  /\ \/ /\ last.status = 400
        /\ last.reason = "category"
        /\ ~IsUndef(last.req.title)
        /\ last.req.title # last.before[last.id].title
     \/ /\ last.status = 500
        /\ last.reason = "saveFailed"
        /\ last.req.stock = Num(0 - 1)
  /\ store = last.before
  /\ Cardinality(DOMAIN store) = 2

\* C9 as stated: after a successful update every stored field that the request
\* did not carry has its previous value, and the other products are unchanged
C9_UnsentFieldsUnchanged ==
  FullUpdateOK
  => /\ \A f \in StoredFields :
          ~Sent(last.req, f) => store[last.id][f] = last.before[last.id][f]
     /\ OthersUnchanged

\* C9 amended: the fields no hook rewrites keep their value when not sent; an
\* unsent stock is kept unless the product has variants, which clears it; an
\* unsent slug is kept unless the title changed, which regenerates it from the
\* title; totalStock is recomputed; the other products are unchanged
C9_UnsentFieldsUnchangedExceptDerived ==
  FullUpdateOK
  => LET old == last.before[last.id]
         new == store[last.id]
     IN /\ \A f \in PlainFields : ~Sent(last.req, f) => new[f] = old[f]
        /\ ~Sent(last.req, "stock")
             => new.stock = IF HasVariants(new) THEN Undef ELSE old.stock
        /\ ~Sent(last.req, "slug")
             => new.slug = IF new.title # old.title THEN Txt(slugFromTitle(new.title.c))
                           ELSE old.slug
        /\ new.totalStock = IF HasVariants(new) THEN Num(variantStockSum(new))
                            ELSE Num(NumOr0(new.stock))
        /\ OthersUnchanged

\* a title-only update of a product stored with a category regenerated the slug,
\* kept the category, and left the second product alone
C9_Witness ==
  /\ FullUpdateOK
  /\ Sent(last.req, "title")
  /\ ~Sent(last.req, "slug")
  /\ ~Sent(last.req, "category")
  /\ store[last.id].slug # last.before[last.id].slug
  /\ store[last.id].category = Str("K1")
  /\ last.before[last.id].category = Str("K1")
  /\ Cardinality(DOMAIN store) = 2

----------------------------------------------------------------------------
(* Bulk deletes logged in full *)

FullDelete == last.full /\ last.op = "delete"

\* the well-formed ids of the logged delete request
WellFormedIds == {last.req.ids[i] : i \in DOMAIN last.req.ids} \cap Hex24

\* C11: a bulk delete with at least one well-formed id succeeds whatever
\* malformed ids come with it, removes exactly the stored products named by
\* the well-formed ids, leaves the others as they were, and reports the number
\* of products it removed
C11_DeleteIgnoresMalformed ==
  (FullDelete /\ WellFormedIds # {})
  => /\ last.status = 200
     /\ DOMAIN store = DOMAIN last.before \ WellFormedIds
     /\ \A o \in DOMAIN store : store[o] = last.before[o]
     /\ last.detail = <<Cardinality(DOMAIN last.before \cap WellFormedIds)>>

\* ids [P1, bad, PX] met a store holding P1 and P2: P1 went, P2 stayed, count 1
C11_Witness ==
  /\ FullDelete
  /\ last.req.ids = <<"P1", "bad", "PX">>
  /\ DOMAIN last.before = {"P1", "P2"}
  /\ DOMAIN store = {"P2"}
  /\ last.detail = <<1>>

\* C14: a bulk delete whose well-formed ids name no stored product is answered
\* not-found
C14_DeleteNoMatchNotFound ==
  (FullDelete /\ WellFormedIds # {} /\ WellFormedIds \cap DOMAIN last.before = {})
  => last.status = 404

----------------------------------------------------------------------------
(* SpecConcurrent: requests interleave.  A handler reads the store and builds *)
(* its document in one step (Begin); the write that its create() or save()    *)
(* sends reaches the store in a later step (Commit), where the unique index   *)
(* on slug is checked against the store as it is then.                        *)

\* the most requests that are between their read and their write
MaxInFlight == 2

ConcCreateInputs ==
  {[BaseCreate EXCEPT !.slug = sl, !.price = Num(5), !.stock = Num(1)] :
     sl \in {Txt(<<"a">>), Txt(<<"b">>), Txt(<<"B">>)}}
  \cup {[BaseCreate EXCEPT !.price = Num(5)]}

ConcUpdateInputs ==
  {[NoReq EXCEPT !.id = i, !.slug = sl] :
     i \in {Str("P1"), Str("P2")}, sl \in {Txt(<<"a">>), Txt(<<"b">>)}}
  \cup
  {[NoReq EXCEPT !.id = i, !.title = Txt(<<"B">>)] : i \in {Str("P1"), Str("P2")}}
  \cup
  {[NoReq EXCEPT !.id = Str("PX"), !.slug = Txt(<<"a">>)],
   [NoReq EXCEPT !.id = Str("P1"), !.slug = Txt(<<"b">>), !.category = Str("bad")]}

\* what a request between its read and its write carries: the document read
\* (old), the document built from it (doc), and whether the stored version
\* (__v) has moved on since the read (stale)
InFlight(op, id, req, old, doc) ==
  [op |-> op, id |-> id, req |-> req, old |-> old, doc |-> doc, stale |-> FALSE]

\* save() of a loaded document sends the modified paths only
modifiedPaths(e) == {f \in StoredFields : e.doc[f] # e.old[f]}

\* the document the write of e leaves in the store st
written(st, e) ==
  IF e.op = "create" THEN e.doc
  ELSE [f \in StoredFields |-> IF f \in modifiedPaths(e) THEN e.doc[f] ELSE st[e.id][f]]

\* save() of a document whose array path is modified adds the version read to
\* the query and increments the stored one
versioned(e) == e.op = "update" /\ "variants" \in modifiedPaths(e)

\* the query of the update matches no document: the product is gone, or the
\* write is versioned and the stored version is no longer the one read
noMatch(st, e) ==
  /\ e.op = "update"
  /\ e.id \notin DOMAIN st \/ (versioned(e) /\ e.stale)

\* mutant: the write is applied without consulting the unique index
commitWrite_noIndex(st, e) ==
  IF noMatch(st, e) THEN [status |-> 500, store |-> st]
  ELSE [status |-> 200,
        store |-> [o \in (DOMAIN st) \cup {e.id} |-> IF o = e.id THEN written(st, e) ELSE st[o]]]

\* mutant: an update whose product is gone inserts the document it built
commitWrite_upsert(st, e) ==
  IF e.op = "update" /\ e.id \notin DOMAIN st
    THEN [status |-> 200,
          store |-> [o \in (DOMAIN st) \cup {e.id} |-> IF o = e.id THEN e.doc ELSE st[o]]]
  ELSE IF noMatch(st, e) THEN [status |-> 500, store |-> st]
  ELSE IF SlugTaken(st, e.id, written(st, e)) THEN [status |-> 409, store |-> st]
  ELSE [status |-> 200,
        store |-> [o \in (DOMAIN st) \cup {e.id} |-> IF o = e.id THEN written(st, e) ELSE st[o]]]

\* the insert or update as the store executes it: nothing is written and
\* save() raises when the update matches no document, E11000 when another
\* document holds the slug, the write otherwise
commitWrite(st, e) ==
  IF noMatch(st, e) THEN [status |-> 500, store |-> st]
  ELSE IF SlugTaken(st, e.id, written(st, e)) THEN [status |-> 409, store |-> st]
  ELSE [status |-> 200,
        store |-> [o \in (DOMAIN st) \cup {e.id} |-> IF o = e.id THEN written(st, e) ELSE st[o]]]

\* the response to a request whose write ended with status w
commitResult(e, w) ==
  IF w.status = 409 THEN Result(409, "duplicate", <<>>, w.store, e.id)
  ELSE IF w.status = 500 THEN Result(500, "saveFailed", <<>>, w.store, e.id)
  ELSE IF e.op = "create" THEN Result(201, "created", <<>>, w.store, e.id)
  ELSE Result(200, "updated", <<>>, w.store, e.id)

\* create up to Product.create's insert: everything but the index is decided
\* on the payload alone
BeginCreate ==
  /\ nextId <= Len(IdSeq)
  /\ Cardinality(inflight) < MaxInFlight
  /\ \E payload \in ConcCreateInputs :
       LET id == IdSeq[nextId]
           r == create(EmptyStore, id, payload)
       IN IF r.status = 201
            THEN /\ inflight' = inflight \cup
                                  {InFlight("create", id, payload, r.store[id], r.store[id])}
                 /\ nextId' = nextId + 1
                 /\ last' = Outcome("begin", payload, Result(0, "", <<>>, store, id), TRUE, store)
                 /\ UNCHANGED store
            ELSE /\ last' = Outcome("create", payload, r, TRUE, store)
                 /\ UNCHANGED <<store, nextId, inflight>>

\* updateById up to save()'s write: findById and the hooks see the document as
\* it is now
BeginUpdateOf(body, full) ==
  LET own == [o \in DOMAIN store \cap {body.id.s} |-> store[o]]
      r == updateById(own, body)
  IN IF r.status = 200
       THEN /\ inflight' = inflight \cup
                             {InFlight("update", r.id, body, store[r.id], r.store[r.id])}
            /\ last' = Outcome("begin", body, Result(0, "", <<>>, store, r.id), full, store)
            /\ UNCHANGED <<store, nextId>>
       ELSE /\ last' = Outcome("update", body, r, full, store)
            /\ UNCHANGED <<store, nextId, inflight>>

BeginUpdate ==
  /\ Cardinality(inflight) < MaxInFlight
  /\ \E body \in ConcUpdateInputs : BeginUpdateOf(body, TRUE)

\* the write of one request in flight reaches the store; a versioned write
\* that succeeded leaves the others that read the same product with a stale
\* version
CommitOf(e, full) ==
  LET w == commitWrite(store, e)
      r == commitResult(e, w)
      moved == w.status = 200 /\ versioned(e)
  IN /\ store' = w.store
     /\ inflight' = {IF moved /\ x.id = e.id THEN [x EXCEPT !.stale = TRUE] ELSE x :
                       x \in inflight \ {e}}
     /\ last' = [Outcome(e.op, e.req, r, full, store) EXCEPT
                   !.reason = IF r.status = 409 THEN "duplicate"
                              ELSE IF r.status = 500 THEN "noMatch"
                              ELSE "written",
                   !.detail = IF e.op = "update" /\ e.id \notin DOMAIN store
                                THEN e.doc.slug.c
                                ELSE written(store, e).slug.c]
     /\ UNCHANGED nextId

Commit == \E e \in inflight : CommitOf(e, TRUE)

NextConcurrent == BeginCreate \/ BeginUpdate \/ Commit

SpecConcurrent == Init /\ [][NextConcurrent]_vars

\* the write of a create or update has just been answered; last.detail is the
\* slug that write carried
Committed == last.op \in {"create", "update"} /\ last.reason \in {"duplicate", "written"}

SlugHeldByOther ==
  \E o \in DOMAIN last.before \ {last.id} : last.before[o].slug = Txt(last.detail)

\* C12: no two stored products share a slug, under any interleaving; a write
\* whose slug another stored product holds is answered with the conflict
\* outcome, and a conflict leaves the store as it was
C12_DuplicateSlugConflicts ==
  /\ \A o1, o2 \in DOMAIN store : store[o1].slug = store[o2].slug => o1 = o2
  /\ (Committed /\ SlugHeldByOther) => last.status = 409
  /\ last.status = 409 => (store = last.before /\ SlugHeldByOther)

\* the write of a create met its slug in the store, held by the product an
\* earlier write had stored, and was answered with a conflict while an update
\* was still between its read and its write
C12_Witness ==
  /\ Committed
  /\ last.status = 409
  /\ last.op = "create"
  /\ Cardinality(DOMAIN store) = 1
  /\ \E e \in inflight : e.op = "update"

----------------------------------------------------------------------------
(* AdminProductController.getOne: the product with its pairs resolved        *)
(* against the attribute catalog as it is at the time of the read            *)

\* VariantSchema.virtual("effectivePrice")
variantEffectivePrice(v) == IF IsNum(v.salePrice) THEN v.salePrice ELSE v.price

\* Math.round(((base - eff) / base) * 100), halves rounded up
roundPercent(base, eff) == ((base - eff) * 200 + base) \div (2 * base)

\* mutant: the discount is computed also when the effective price is not
\* below the price
variantDiscountPercent_unguarded(v) ==
  LET eff == variantEffectivePrice(v)
  IN IF IsNum(v.price) /\ IsNum(eff) /\ v.price.n > 0
       THEN Num(roundPercent(v.price.n, eff.n))
       ELSE Num(0)

\* VariantSchema.virtual("discountPercent")
variantDiscountPercent(v) ==
  LET eff == variantEffectivePrice(v)
  IN IF IsNum(v.price) /\ IsNum(eff) /\ v.price.n > 0 /\ eff.n < v.price.n
       THEN Num(roundPercent(v.price.n, eff.n))
       ELSE Num(0)

\* a virtual of a variant as the handler reads it: findOne(...).lean() returns
\* plain objects, on which no virtual is defined
leanVirtual(v, name) == Undef

\* the ids of the attributes the product's pairs refer to
attrIdSet(d) ==
  UNION {{d.variants[i].values[j].attributeId.s : j \in DOMAIN d.variants[i].values} :
           i \in DOMAIN d.variants}

\* the keys of attrById: String(a._id) of the attributes that
\* Attribute.find({_id: {$in: attrIds}}) returns; the query casts each id
foundAttrs(cat, attrIds) == {a \in DOMAIN cat : \E x \in attrIds : lowerHex(x) = a}

\* attrById.get(pair.attributeId) ?? placeholder
attrInfo(found, attrId) ==
  IF attrId \in found THEN [id |-> attrId, name |-> Str(attrId)]
  ELSE [id |-> attrId, name |-> Null]

\* valByAttrId.get(pair.attributeId)?.get(vid) ?? placeholder
valueInfo(cat, found, attrId, vid) ==
  IF attrId \in found /\ vid \in cat[attrId] THEN [id |-> vid, label |-> Str(vid)]
  ELSE [id |-> vid, label |-> Null]

resolvePair(cat, found, pair) ==
  LET ids == toArray(pair.attributesValueId)
  IN [attribute |-> attrInfo(found, pair.attributeId.s),
      values |-> [k \in DOMAIN ids |-> valueInfo(cat, found, pair.attributeId.s, ids[k].s)],
      stock |-> IF IsNullish(pair.stock) THEN Null ELSE pair.stock]

resolveVariant(cat, found, v) ==
  [price |-> v.price,
   salePrice |-> IF IsNullish(v.salePrice) THEN Null ELSE v.salePrice,
   stock |-> v.stock,
   effectivePrice |-> IF IsNullish(leanVirtual(v, "effectivePrice")) THEN Null
                      ELSE leanVirtual(v, "effectivePrice"),
   discountPercent |-> IF IsNullish(leanVirtual(v, "discountPercent")) THEN Num(0)
                       ELSE leanVirtual(v, "discountPercent"),
   attributesResolved |-> [j \in DOMAIN v.values |-> resolvePair(cat, found, v.values[j])]]

getOne(st, cat, id) ==
  IF ~isValidObjectId(id) THEN Result(500, "castError", <<>>, st, "")
  ELSE IF id.s \notin DOMAIN st THEN Result(404, "notFound", <<>>, st, id.s)
  ELSE LET d == st[id.s]
           found == foundAttrs(cat, attrIdSet(d))
       IN Result(200, "fetched",
                 [i \in DOMAIN d.variants |-> resolveVariant(cat, found, d.variants[i])],
                 st, id.s)

----------------------------------------------------------------------------
(* SpecFetch: products are created and updated, then one is fetched against  *)
(* a catalog that may have lost attributes or values since                   *)

\* a variant on sale, one whose pair lists two values, and variants whose ids
\* are spelled in upper case
vSale == [Variant(Num(5), Num(1), <<Pair("A1", "V1", 0)>>) EXCEPT !.salePrice = Num(4)]
vTwoValues ==
  Variant(Num(5), Num(1),
          <<[Pair("A1", "V1", 0) EXCEPT !.attributesValueId = Arr(<<Str("V2"), Str("V1")>>)]>>)
vUpperAttr == Variant(Num(5), Num(1), <<Pair("A1U", "V1", 0)>>)
vUpperValue == Variant(Num(5), Num(1), <<Pair("A1", "V1U", 0)>>)

FetchCreateInputs ==
  {[BaseCreate EXCEPT !.mainAttributeId = Str("A1"), !.variants = Arr(v)] :
     v \in {<<vA1, vAB>>, <<vSale>>, <<vTwoValues, vA1b>>, <<vUpperAttr>>}}
  \cup {[BaseCreate EXCEPT !.price = Num(5), !.stock = Num(1)]}

FetchUpdateInputs ==
  {[NoReq EXCEPT !.id = Str("P1"), !.mainAttributeId = m[1], !.variants = Arr(m[2])] :
     m \in {<<Str("AX"), <<vX>>>>, <<Str("A1U"), <<vUpperAttr>>>>,
            <<Str("A1"), <<vUpperValue, vSale>>>>, <<Str("A1"), <<vBadValue>>>>}}

\* the catalog at the time of the read: as it was, with A2 and the value V2
\* deleted, and empty
CatalogsIn == {Catalog, [a \in {"A1"} |-> {"V1"}], [a \in {} |-> {}]}

FetchIdsIn == {Str("P1"), Str("PX"), Str("bad")}

CreateX ==
  ~last.full /\ \E payload \in FetchCreateInputs, full \in BOOLEAN : CreateStep(payload, full)

UpdateX ==
  ~last.full /\ \E body \in FetchUpdateInputs, full \in BOOLEAN : UpdateStep(body, full)

\* GET by id; the catalog read is logged with the response
Fetch ==
  /\ ~last.full
  /\ \E id \in FetchIdsIn, cat \in CatalogsIn :
       LET r == getOne(store, cat, id)
       IN /\ last' = Outcome("fetch", [NoReq EXCEPT !.id = id], r, TRUE, store)
                       @@ [catalog |-> cat]
          /\ UNCHANGED <<store, nextId, inflight>>

NextFetch == CreateX \/ UpdateX \/ Fetch

SpecFetch == Init /\ [][NextFetch]_vars

\* a stored product has been fetched
FetchedStored == last.op = "fetch" /\ last.req.id.s \in DOMAIN last.before

\* the catalog holds the attribute / the value of the attribute that an id names
InCatalog(cat, attrId) == lowerHex(attrId) \in DOMAIN cat

ValueInCatalog(cat, attrId, vid) ==
  InCatalog(cat, attrId) /\ lowerHex(vid) \in cat[lowerHex(attrId)]

\* C15: fetching a stored product succeeds whatever the catalog holds; every
\* stored pair yields one attribute record and one value record per value id,
\* in order and under the referenced id; the record carries the catalog's
\* fields when the catalog holds the id and null fields when it does not
C15_FetchResolvesEveryPair ==
  FetchedStored
  => /\ last.status = 200
     /\ LET d == last.before[last.req.id.s]
            cat == last.catalog
        IN /\ Len(last.detail) = Len(d.variants)
           /\ \A i \in DOMAIN d.variants :
                LET rs == last.detail[i].attributesResolved
                IN /\ Len(rs) = Len(d.variants[i].values)
                   /\ \A j \in DOMAIN rs :
                        LET pair == d.variants[i].values[j]
                            ids == toArray(pair.attributesValueId)
                        IN /\ rs[j].attribute.id = pair.attributeId.s
                           /\ (rs[j].attribute.name # Null) = InCatalog(cat, pair.attributeId.s)
                           /\ Len(rs[j].values) = Len(ids)
                           /\ \A k \in DOMAIN ids :
                                /\ rs[j].values[k].id = ids[k].s
                                /\ (rs[j].values[k].label # Null)
                                     = ValueInCatalog(cat, pair.attributeId.s, ids[k].s)

\* C15 with the ids of the product spelled as the catalog spells them: the
\* part of C15 that the handler does deliver
FetchResolvesLowerCasePairs ==
  (FetchedStored
     /\ \A a \in attrIdSet(last.before[last.req.id.s]) : lowerHex(a) = a
     /\ \A i \in DOMAIN last.before[last.req.id.s].variants :
          \A j \in DOMAIN last.before[last.req.id.s].variants[i].values :
            LET ids == toArray(last.before[last.req.id.s].variants[i].values[j].attributesValueId)
            IN \A k \in DOMAIN ids : lowerHex(ids[k].s) = ids[k].s)
  => C15_FetchResolvesEveryPair

\* C16: fetch-resolved reports for every variant effectivePrice = salePrice
\* when the variant has one and price otherwise, and the discount computed
\* from the two
C16_FetchReportsVariantPrices ==
  (FetchedStored /\ last.status = 200)
  => \A i \in DOMAIN last.detail :
       LET v == last.before[last.req.id.s].variants[i]
       IN /\ last.detail[i].effectivePrice = variantEffectivePrice(v)
          /\ last.detail[i].discountPercent = variantDiscountPercent(v)

----------------------------------------------------------------------------
(* SpecPrice: the product's effectivePrice and discountPercent virtuals,     *)
(* evaluated on a product's price fields at a time `now`                     *)

\* the latest instant of the clock; offers start and end at 0..MaxTime
MaxTime == 2

\* mutant: an offer that has ended still applies
inWindow_neverEnds(p, now) == IsNullish(p.offerStart) \/ p.offerStart.n <= now

\* (!offerStart || offerStart <= now) && (!offerEnd || offerEnd >= now); a Date
\* is truthy whatever its value
inWindow(p, now) ==
  /\ IsNullish(p.offerStart) \/ p.offerStart.n <= now
  /\ IsNullish(p.offerEnd) \/ p.offerEnd.n >= now

\* ProductSchema.virtual("effectivePrice")
productEffectivePrice(p, now) ==
  IF IsNum(p.salePrice) /\ inWindow(p, now) THEN p.salePrice ELSE p.price

\* ProductSchema.virtual("discountPercent")
productDiscountPercent(p, now) ==
  LET eff == productEffectivePrice(p, now)
  IN IF IsNum(p.price) /\ IsNum(eff) /\ p.price.n > 0 /\ eff.n < p.price.n
       THEN Num(roundPercent(p.price.n, eff.n))
       ELSE Num(0)

DatesIn == {Undef, Null} \cup {Num(t) : t \in 0..MaxTime}

PricedIn ==
  [price : {Num(20), Undef},
   salePrice : {Undef, Null, Num(0), Num(15), Num(20), Num(25)},
   offerStart : DatesIn,
   offerEnd : DatesIn,
   now : 0..MaxTime]

InitPrice ==
  /\ store = EmptyStore
  /\ nextId = 1
  /\ inflight = {}
  /\ \E p \in PricedIn :
       last = [op |-> "none", full |-> FALSE, req |-> p, before |-> EmptyStore,
               status |-> 0, reason |-> "", detail |-> <<>>, id |-> ""]

\* the two virtuals are read, as toJSON does with virtuals: true
ReadPrice ==
  /\ last.op = "none"
  /\ last' = [last EXCEPT !.op = "price",
                          !.detail = <<productEffectivePrice(last.req, last.req.now),
                                       productDiscountPercent(last.req, last.req.now)>>]
  /\ UNCHANGED <<store, nextId, inflight>>

NextPrice == ReadPrice

SpecPrice == InitPrice /\ [][NextPrice]_vars

\* the sale price of the logged product applies at the logged time
SaleApplies ==
  /\ IsNum(last.req.salePrice)
  /\ IsNullish(last.req.offerStart) \/ last.req.offerStart.n <= last.req.now
  /\ IsNullish(last.req.offerEnd) \/ last.req.offerEnd.n >= last.req.now

\* C17: the effective price is the sale price exactly when a sale price is
\* present and now is within the offer window, open at an absent bound, and the
\* price otherwise; 20 on sale for 15 gives 15 and 25 percent inside the window
\* and 20 and 0 percent after its end
C17_EffectivePriceInWindow ==
  last.op = "price"
  => /\ last.detail[1] = IF SaleApplies THEN last.req.salePrice ELSE last.req.price
     /\ (last.req.price = Num(20) /\ last.req.salePrice = Num(15))
          => last.detail = IF SaleApplies THEN <<Num(15), Num(25)>> ELSE <<Num(20), Num(0)>>

\* 20 on sale for 15, read after the offer's end: 20 and no discount
C17_Witness ==
  /\ last.op = "price"
  /\ last.req.price = Num(20)
  /\ last.req.salePrice = Num(15)
  /\ last.req.offerStart = Num(0)
  /\ last.req.offerEnd = Num(1)
  /\ last.req.now = 2
  /\ last.detail = <<Num(20), Num(0)>>

----------------------------------------------------------------------------
(* The slug after a write (SpecFields) *)

\* C18: after a successful update that supplies a non-blank slug, the stored
\* slug is the normalization of the supplied slug
C18_SuppliedSlugWins ==
  (FullUpdateOK /\ slugSupplied(last.req))
  => store[last.id].slug = Txt(normalizeSlug(last.req.slug.c))

\* the logged request sets title, sends no slug, and is valid otherwise: a
\* simple create with price, stock and image, or an update of a stored product
\* that sends the title alone; no other product holds the title's slug
TitleWithoutSlug ==
  /\ last.full
  /\ Sent(last.req, "title")
  /\ ~Sent(last.req, "slug")
  /\ \A o \in DOMAIN last.before \ {last.id} :
       last.before[o].slug # Txt(normalizeSlug(last.req.title.c))
  /\ \/ /\ last.op = "create"
        /\ IsNum(last.req.price) /\ IsNum(last.req.stock)
        /\ urlValidator(last.req.imageUrl)
        /\ \A f \in {"category", "brand", "mainAttributeId", "variants"} : ~Sent(last.req, f)
     \/ /\ last.op = "update"
        /\ last.id \in DOMAIN last.before
        /\ \A f \in StoredFields \ {"title"} : ~Sent(last.req, f)
        /\ IsUndef(last.req.mainBuild)

\* C19: a create or update that sets title and supplies no slug succeeds, and
\* the stored slug is the normalization of the new title
C19_TitleWithoutSlugSucceeds ==
  TitleWithoutSlug
  => /\ last.status \in {200, 201}
     /\ last.id \in DOMAIN store
     /\ store[last.id].slug = Txt(normalizeSlug(last.req.title.c))

----------------------------------------------------------------------------
(* SpecSlug: the slug normalization applied to a string, and applied again   *)

\* the longest string normalized
MaxSlugLen == 3

\* every string of up to MaxSlugLen characters, and "Ab Ba!!"
SlugIn ==
  {Txt(c) : c \in SeqsUpTo(DOMAIN Lower, MaxSlugLen)}
  \cup {Txt(<<"A", "b", " ", "B", "a", "!", "!">>)}

InitSlug ==
  /\ store = EmptyStore
  /\ nextId = 1
  /\ inflight = {}
  /\ \E sl \in SlugIn :
       last = [op |-> "none", full |-> FALSE, req |-> [NoReq EXCEPT !.slug = sl],
               before |-> EmptyStore, status |-> 0, reason |-> "", detail |-> <<>>, id |-> ""]

\* the handlers' normalization of a supplied slug
Normalize ==
  /\ last.op = "none"
  /\ last' = [last EXCEPT !.op = "normalize", !.detail = <<normalizeSlug(last.req.slug.c)>>]
  /\ UNCHANGED <<store, nextId, inflight>>

\* the normalization applied to its own result
NormalizeAgain ==
  /\ last.op = "normalize"
  /\ last' = [last EXCEPT !.op = "renormalize",
                          !.detail = <<last.detail[1], normalizeSlug(last.detail[1])>>]
  /\ UNCHANGED <<store, nextId, inflight>>

\* the hook's normalization of a title
FromTitle ==
  /\ last.op = "none"
  /\ last' = [last EXCEPT !.op = "fromTitle", !.detail = <<slugFromTitle(last.req.slug.c)>>]
  /\ UNCHANGED <<store, nextId, inflight>>

NextSlug == Normalize \/ NormalizeAgain \/ FromTitle

SpecSlug == InitSlug /\ [][NextSlug]_vars

\* only lower-case letters, digits and hyphens; no hyphen first, last, or next
\* to another hyphen
SlugShaped(c) ==
  /\ \A i \in DOMAIN c : c[i] \in {"a", "b", "1", "-"}
  /\ c # <<>> => (c[1] # "-" /\ c[Len(c)] # "-")
  /\ \A i \in 1..(Len(c) - 1) : ~(c[i] = "-" /\ c[i + 1] = "-")

\* C20: normalizing a normalized slug gives the same slug; a normalized slug,
\* from the handlers or from the title hook, has only lower-case letters,
\* digits and single inner hyphens; "Ab Ba!!" gives "ab-ba"
C20_NormalizeIdempotent ==
  /\ last.op = "renormalize" => last.detail[2] = last.detail[1]
  /\ last.op \in {"normalize", "renormalize", "fromTitle"} => SlugShaped(last.detail[1])
  /\ (last.op = "normalize" /\ last.req.slug.c = <<"A", "b", " ", "B", "a", "!", "!">>)
       => last.detail[1] = <<"a", "b", "-", "b", "a">>

\* " A!" was normalized to "a", and "a" again to "a"
C20_Witness ==
  /\ last.op = "renormalize"
  /\ last.req.slug.c = <<" ", "A", "!">>
  /\ last.detail = <<(<<"a">>), (<<"a">>)>>


-----------------------------------------------------------------------------
(* The aggregate invariants on price and stock (Spec) *)

\* C21: every stored product with variants has no product-level stock, also
\* when the request that wrote it carried a stock
C21_VariantProductHasNoStock ==
  \A d \in Stored : HasVariants(d) => d.stock = Undef

\* a successful update carried stock 1 together with variants
C21_Witness ==
  /\ UpdatedOK
  /\ last.full
  /\ last.req.stock = Num(1)
  /\ IsArr(last.req.variants)
  /\ HasVariants(store[last.id])

\* C22: every stored product with variants has no product-level price
C22_VariantProductHasNoPrice ==
  \A d \in Stored : HasVariants(d) => d.price = Undef

\* the last request was an update, logged in full, of a stored simple product
\* that stays simple
SimpleUpdate ==
  /\ last.op = "update"
  /\ last.full
  /\ last.id \in DOMAIN last.before
  /\ ~HasVariants(last.before[last.id])
  /\ ~IsArr(last.req.variants) \/ last.req.variants = Arr(<<>>)

\* C27: every stored product without variants has a numeric price and a
\* numeric stock; an update that empties the variants succeeds only with both,
\* and an update that sets the price or the stock of a simple product to null
\* is rejected
C27_SimpleProductHasPriceAndStock ==
  /\ \A d \in Stored : ~HasVariants(d) => IsNum(d.price) /\ IsNum(d.stock)
  /\ (SimpleUpdate /\ (last.req.price = Null \/ last.req.stock = Null)) => last.status # 200

\* a successful update emptied the variants of a product that had some and
\* sent the stock with it
C27_Witness ==
  /\ UpdatedOK
  /\ last.full
  /\ HasVariants(last.before[last.id])
  /\ last.req.variants = Arr(<<>>)
  /\ IsNum(last.req.stock)
  /\ ~HasVariants(store[last.id])

\* an update that set the stock of a simple product to null was rejected
C27_NullRejected ==
  /\ SimpleUpdate
  /\ last.req.stock = Null
  /\ last.status = 500


-----------------------------------------------------------------------------
(* The outcome of an update whose result breaks the aggregate rules (Spec) *)

\* the last request was an update, logged in full, that reached the save
ReachedSave ==
  /\ last.op = "update"
  /\ last.full
  /\ last.id \in DOMAIN last.before
  /\ last.reason \in {"updated", "duplicate", "saveFailed"}

\* the product the last update asked for: the stored one with the fields and
\* the variants of the request
Requested == applyVariants(applyFields(last.before[last.id], last.req), last.req)

\* a product the caller made invalid: a negative variant price or stock, a
\* variant without a pair for the main attribute, variants without a main
\* attribute, no variants and no numeric price or stock
CallerInvalid(d) ==
  IF Len(d.variants) > 0
    THEN \/ ~Truthy(d.mainAttributeId)
         \/ ~everyHasMain(d)
         \/ \E i \in DOMAIN d.variants :
              \/ IsNum(d.variants[i].price) /\ d.variants[i].price.n < 0
              \/ IsNum(d.variants[i].stock) /\ d.variants[i].stock.n < 0
    ELSE ~IsNum(d.price) \/ ~IsNum(d.stock)

\* C23: an update whose result is invalid by the caller's doing ends with the
\* validation-failure outcome, never the internal one
C23_CallerInvalidIsValidationFailure ==
  (ReachedSave /\ CallerInvalid(Requested)) => last.status = 400

\* C24: an update that supplies valid variants all referencing one attribute X
\* and no mainAttributeId succeeds and leaves mainAttributeId = X
C24_UpdateInfersMain ==
  (/\ ReachedSave
   /\ ReqVariantsValid(last.req)
   /\ Cardinality(ReqAttrs(last.req)) = 1
   /\ IsUndef(last.req.mainAttributeId)
   /\ IsUndef(last.req.price)
   /\ IsUndef(last.req.stock))
  => /\ last.status = 200
     /\ \A x \in ReqAttrs(last.req) : store[last.id].mainAttributeId = x


-----------------------------------------------------------------------------
(* The failure a create reports for its variant list (SpecCreate) *)

\* the pairs of a request's variants
ReqPairs(req) ==
  UNION {Range(req.variants.a[i].values.a) : i \in DOMAIN req.variants.a}

\* the request's variant list violates check n of the validator
Violates(req, n) ==
  IF n = 1
    THEN \E i \in DOMAIN req.variants.a :
           LET v == req.variants.a[i]
           IN ~(IsNum(v.price) /\ IsNum(v.stock) /\ IsArr(v.values) /\ Len(v.values.a) > 0)
  ELSE IF n = 2
    THEN \E p \in ReqPairs(req) :
           \/ ~isHex24(p.attributeId)
           \/ toArray(p.attributesValueId) = <<>>
           \/ \E x \in Range(toArray(p.attributesValueId)) : ~isHex24(x)
  ELSE IF n = 3
    THEN \E p \in ReqPairs(req) :
           \/ ~IsNum(p.stock)
           \/ p.stock.n < 0
           \/ ~IsNullish(p.imageUrl) /\ p.imageUrl.t # "string"
  ELSE IF n = 4
    THEN \E p \in ReqPairs(req) : isHex24(p.attributeId) /\ p.attributeId.s \notin DOMAIN Catalog
  ELSE \E p \in ReqPairs(req) :
         /\ isHex24(p.attributeId)
         /\ p.attributeId.s \in DOMAIN Catalog
         /\ \E x \in Range(toArray(p.attributesValueId)) :
              isHex24(x) /\ x.s \notin Catalog[p.attributeId.s]

\* the number of the check a reported failure belongs to
CheckOf(reason) ==
  IF reason = "shape" THEN 1
  ELSE IF reason \in {"attributeId", "valueId"} THEN 2
  ELSE IF reason \in {"pairStock", "pairImageUrl"} THEN 3
  ELSE IF reason = "unknownAttribute" THEN 4
  ELSE IF reason = "unknownValue" THEN 5
  ELSE 0

\* the last request was a create with a non-empty variant list of well-shaped
\* variants or not
VariantCreate ==
  /\ last.op = "create"
  /\ IsArr(last.req.variants)
  /\ Len(last.req.variants.a) > 0

\* C25: when the variant list of a create violates several checks, the
\* failure reported is that of the lowest-numbered violated check
C25_LowestCheckReported ==
  \A n \in 1..5 :
    (/\ VariantCreate
     /\ \A i \in DOMAIN last.req.variants.a : IsArr(last.req.variants.a[i].values)
     /\ Violates(last.req, n)
     /\ \A m \in 1..(n - 1) : ~Violates(last.req, m))
    => last.status = 400 /\ CheckOf(last.reason) = n

\* the value ids under attribute a, over all pairs of all variants, that the
\* catalog does not define on a
OffendingValues(req, a) ==
  {x.s : x \in UNION {Range(toArray(p.attributesValueId)) :
                        p \in {q \in ReqPairs(req) : q.attributeId.s = a}}}
    \ Catalog[a]

\* C26: an unknown-value failure reports every offending value id under the
\* reported attribute across all pairs of all variants, and an
\* unknown-attribute failure reports every distinct referenced attribute id
\* that the catalog lacks
C26_AllOffendersReported ==
  /\ (VariantCreate /\ last.reason = "unknownValue")
       => Range(Tail(last.detail)) = OffendingValues(last.req, Head(last.detail))
  /\ (VariantCreate /\ last.reason = "unknownAttribute")
       => Range(last.detail) =
            {p.attributeId.s : p \in ReqPairs(last.req)} \ DOMAIN Catalog

\* the half of C26 on unknown attributes, which holds
UnknownAttributesAllReported ==
  (VariantCreate /\ last.reason = "unknownAttribute")
    => Range(last.detail) = {p.attributeId.s : p \in ReqPairs(last.req)} \ DOMAIN Catalog


-----------------------------------------------------------------------------
(* SpecDiscount: the discountPercent virtuals of a variant and of a product,
   read on prices and sale prices that the schema admits (min: 0) *)

\* the largest price and, plus one, the largest sale price
MaxPrice == 12

DiscountIn ==
  [kind : {"variant"},
   price : {Num(n) : n \in 0..MaxPrice},
   salePrice : {Undef, Null} \cup {Num(n) : n \in 0..(MaxPrice + 1)},
   offerStart : {Undef}, offerEnd : {Undef}, now : {0}]
  \cup
  [kind : {"product"},
   price : {Num(n) : n \in 0..MaxPrice},
   salePrice : {Undef, Null} \cup {Num(n) : n \in 0..(MaxPrice + 1)},
   offerStart : {Undef, Num(1)}, offerEnd : {Undef, Num(1)}, now : 0..MaxTime]

InitDiscount ==
  /\ store = EmptyStore
  /\ nextId = 1
  /\ inflight = {}
  /\ \E p \in DiscountIn :
       last = [op |-> "none", full |-> FALSE, req |-> p, before |-> EmptyStore,
               status |-> 0, reason |-> "", detail |-> <<>>, id |-> ""]

\* the discountPercent of a variant is read
ReadVariantDiscount ==
  /\ last.op = "none"
  /\ last.req.kind = "variant"
  /\ last' = [last EXCEPT !.op = "discount", !.detail = <<variantDiscountPercent(last.req)>>]
  /\ UNCHANGED <<store, nextId, inflight>>

\* the discountPercent of a product is read at time now
ReadProductDiscount ==
  /\ last.op = "none"
  /\ last.req.kind = "product"
  /\ last' = [last EXCEPT !.op = "discount",
                          !.detail = <<productDiscountPercent(last.req, last.req.now)>>]
  /\ UNCHANGED <<store, nextId, inflight>>

NextDiscount == ReadVariantDiscount \/ ReadProductDiscount

SpecDiscount == InitDiscount /\ [][NextDiscount]_vars

\* the sale price of the logged variant or product is in effect
SaleInEffect ==
  /\ IsNum(last.req.salePrice)
  /\ last.req.kind = "product" => SaleApplies

\* C30: for a price >= 0 and an optional sale price >= 0, discountPercent is an
\* integer in 0..100, and it is 0 when the price is 0, when no sale price is in
\* effect, or when the sale price is not below the price
C30_DiscountPercentInRange ==
  last.op = "discount"
  => /\ IsNum(last.detail[1])
     /\ last.detail[1].n \in 0..100
     /\ (\/ last.req.price = Num(0)
         \/ ~SaleInEffect
         \/ last.req.salePrice.n >= last.req.price.n)
        => last.detail[1] = Num(0)

\* a variant with a sale price above its price: no discount
C30_Witness ==
  /\ last.op = "discount"
  /\ last.req.kind = "variant"
  /\ last.req.price = Num(MaxPrice)
  /\ last.req.salePrice = Num(MaxPrice + 1)
  /\ last.detail = <<Num(0)>>

\* a product priced 3 on sale for 1 inside its window: 67 percent
C30_Rounded ==
  /\ last.op = "discount"
  /\ last.req.kind = "product"
  /\ last.req.price = Num(3)
  /\ last.req.salePrice = Num(1)
  /\ last.detail = <<Num(67)>>


-----------------------------------------------------------------------------
(* SpecRace: updates of one product interleave with each other and with its
   bulk delete.  Creates and deletes are single steps; an update reads and
   builds in one step and its write reaches the store in a later one. *)

RaceCreateInputs == {[BaseCreate EXCEPT !.price = Num(5), !.stock = Num(1)]}

RaceUpdateInputs ==
  {[NoReq EXCEPT !.id = Str("P1"), !.stock = Num(2)],
   [NoReq EXCEPT !.id = Str("P1"), !.mainAttributeId = Str("A1"), !.variants = Arr(<<vA1>>)],
   [NoReq EXCEPT !.id = Str("P1"), !.mainAttributeId = Str("A2")]}

RaceCreate == inflight = {} /\ \E payload \in RaceCreateInputs : CreateStep(payload, FALSE)

RaceBegin ==
  /\ Cardinality(inflight) < MaxInFlight
  /\ \E body \in RaceUpdateInputs : BeginUpdateOf(body, FALSE)

RaceCommit == \E e \in inflight : CommitOf(e, FALSE)

\* deleteMany removes the product in one step, whatever is in flight
RaceDelete ==
  LET r == bulkDelete(store, <<"P1">>)
  IN /\ store' = r.store
     /\ last' = Outcome("delete", [NoReq EXCEPT !.ids = <<"P1">>], r, FALSE, store)
     /\ UNCHANGED <<nextId, inflight>>

NextRace == RaceCreate \/ RaceBegin \/ RaceCommit \/ RaceDelete

SpecRace == Init /\ [][NextRace]_vars

\* the aggregate rules on one product: totalStock matches the mode, a product
\* with variants has no stock and has a main attribute that every variant
\* carries
AggregateOK(d) ==
  IF HasVariants(d)
    THEN /\ d.totalStock = Num(SumSeq([i \in DOMAIN d.variants |-> d.variants[i].stock.n]))
         /\ d.stock = Undef
         /\ d.mainAttributeId.t = "string"
         /\ \A i \in DOMAIN d.variants :
              \E j \in DOMAIN d.variants[i].values :
                d.variants[i].values[j].attributeId = d.mainAttributeId
    ELSE IsNum(d.stock) /\ d.totalStock = d.stock

\* C28: under every interleaving of concurrent updates of one product, once
\* they have all completed the stored product satisfies the aggregate rules
C28_RacingUpdatesKeepAggregate ==
  inflight = {} => \A d \in Stored : AggregateOK(d)

\* C29: a product id that was handed out and is no longer stored is never
\* stored again, also by an update that read before the delete and writes
\* after it
C29_DeletedStaysDeleted ==
  [][\A i \in 1..(nextId - 1) :
       IdSeq[i] \notin DOMAIN store => IdSeq[i] \notin DOMAIN store']_vars

\* the write of an update that read the product before its delete reached the
\* store after it: nothing was written and the product is still gone
C29_Witness ==
  /\ last.op = "update"
  /\ last.reason = "noMatch"
  /\ nextId > 1
  /\ last.id \notin DOMAIN store

====
